---- MODULE Spec2Model ----
(***************************************************************************)
(* A model of lib_path_tree (src/lib_path_tree/lib_path_tree.py): the      *)
(* path enumerators, the fnmatch filter, the tree copy and the two         *)
(* pruning operations, over a small POSIX filesystem.                      *)
(*                                                                         *)
(* A path is the sequence of its names below the anchor "/" (pathlib's     *)
(* parts without parts[0]); a name and a pattern are sequences of          *)
(* one-character strings, so that str(path), fnmatch and sorted() are      *)
(* computed character by character as Python computes them.                *)
(***************************************************************************)
EXTENDS Integers, Sequences, FiniteSets, TLC

VARIABLES
    dirs,       \* the directories that exist (the anchor "/" always exists)
    files,      \* the files that exist: path -> content
    call,       \* the arguments of the operation called last
    pc,         \* "idle" | "running" | "done" | "failed"
    err,        \* the exception the call raised, "none" when it raised none
    todo,       \* the paths the call's loop has still to process, in order
    out,        \* the sequence a listing call returned
    workers,    \* copy: the tasks being run, one record per busy thread
    dirs0,      \* the directories as they were when the call started
    files0,     \* the files as they were when the call started
    prev,       \* the arguments of the call before this one
    ncalls,     \* the number of calls started so far
    mtime,      \* the modification time of every directory and file
    failures    \* copy: the source paths whose task raised an exception

vars == <<dirs, files, call, pc, err, todo, out, workers, dirs0, files0, prev, ncalls,
          mtime, failures>>

----------------------------------------------------------------------------
(* Bounds of the model *)

\* the largest number of entries (directories and files) below "/" at Init
MaxEntries == 4
\* the longest list of paths handed to filter_path_objects_fnmatch and
\* expand_paths_subdirs_recursive
MaxPaths == 2
\* the largest minimal_depth argument tried
MaxMinimalDepth == 2
\* the number of calls made one after the other on the same filesystem
MaxCalls == 2

----------------------------------------------------------------------------
(* Names, paths and strings *)

\* the names a directory entry may carry: a plain and a dotted directory
NameA == <<"a">>
NameH == <<".", "h">>
\* ... and a plain file
NameX == <<"x">>

DirNames == {NameA, NameH}
FileNames == {NameX}
Names == DirNames \cup FileNames

\* the code point of a character (ord), for Python's string comparison
Ord(c) ==
    CASE c = "*" -> 42
      [] c = "." -> 46
      [] c = "/" -> 47
      [] c = "?" -> 63
      [] c = "a" -> 97
      [] c = "h" -> 104
      [] c = "x" -> 120

\* s < t for two Python strings: the first differing character decides, a
\* proper prefix is smaller
RECURSIVE StrLess(_, _)
StrLess(s, t) ==
    IF t = <<>> THEN FALSE
    ELSE IF s = <<>> THEN TRUE
    ELSE IF Head(s) # Head(t) THEN Ord(Head(s)) < Ord(Head(t))
    ELSE StrLess(Tail(s), Tail(t))

\* p < q for two pathlib paths: PurePath.__lt__ compares the lists of parts
\* (both start with the anchor "/", which is left out here)
RECURSIVE PathLess(_, _)
PathLess(p, q) ==
    IF q = <<>> THEN FALSE
    ELSE IF p = <<>> THEN TRUE
    ELSE IF Head(p) # Head(q) THEN StrLess(Head(p), Head(q))
    ELSE PathLess(Tail(p), Tail(q))

\* str(path): "/" for the anchor, else "/" before every name
RECURSIVE JoinNames(_)
JoinNames(p) ==
    IF p = <<>> THEN <<>> ELSE <<"/">> \o Head(p) \o JoinNames(Tail(p))

Str(p) == IF p = <<>> THEN <<"/">> ELSE JoinNames(p)

\* len(path.parts): the anchor and the names
NumParts(p) == Len(p) + 1

Parent(p) == SubSeq(p, 1, Len(p) - 1)

\* p is q or lies below q
IsPrefix(q, p) == Len(q) <= Len(p) /\ SubSeq(p, 1, Len(q)) = q

\* the proper ancestors of p, the anchor left out
Ancestors(p) == {SubSeq(p, 1, i) : i \in 1..(Len(p) - 1)}

----------------------------------------------------------------------------
(* The filesystem *)

\* what a file created at path p holds: every file of the initial tree holds
\* data of its own, so that a copy can be told from any other file
ContentOf(p) == <<"data", p>>

IsDir(D, p) == p = <<>> \/ p \in D
IsFile(F, p) == p \in DOMAIN F
Exists(D, F, p) == IsDir(D, p) \/ IsFile(F, p)

\* os.listdir(p): the entries directly in directory p
ListDir(D, F, p) == {q \in D \cup DOMAIN F : q # <<>> /\ Parent(q) = p}

\* the filesystem below and including p
DirsUnder(D, p) == {q \in D \cup {<<>>} : IsPrefix(p, q)}
FilesUnder(F, p) == {q \in DOMAIN F : IsPrefix(p, q)}

\* st_mtime of an entry of the initial tree: every entry has a time of its
\* own, in the past
MtimeOf(p) == <<"mtime", p>>
\* ... and of an entry written during a call: the time of the call, which no
\* entry of the initial tree carries
Now == <<"now">>

\* a directory whose list of entries has changed: its st_mtime is the time of
\* the change (the anchor "/" is not kept track of)
Touch(M, p) == IF p \in DOMAIN M THEN [M EXCEPT ![p] = Now] ELSE M

\* the times after entry p was created / after the entries gone, the topmost
\* of them p, were removed
Created(M, p) ==
    Touch([q \in DOMAIN M \cup {p} |-> IF q = p THEN Now ELSE M[q]], Parent(p))
Removed(M, gone, p) ==
    IF gone = {} THEN M ELSE Touch([q \in DOMAIN M \ gone |-> M[q]], Parent(p))

\* shutil.copystat(source, target), as far as st_mtime goes
CopyStatMtime(M, source, target) ==
    IF source \in DOMAIN M /\ target \in DOMAIN M
    THEN [M EXCEPT ![target] = M[source]]
    ELSE M

\* the orders in which os.scandir may list the entries of a directory: the
\* order is the filesystem's, not the program's
ScanOrders ==
    { <<NameA, NameH, NameX>>, <<NameX, NameH, NameA>>, <<NameH, NameX, NameA>> }

\* the names of the subdirectories / of the files of top, in scandir order
ScanDirs(D, top, ord) == SelectSeq(ord, LAMBDA n : Append(top, n) \in D)
ScanFiles(F, top, ord) == SelectSeq(ord, LAMBDA n : Append(top, n) \in DOMAIN F)

\* os.walk(top, topdown=False): the triples (root, dirs, files), every
\* subdirectory's triples before the directory's own
RECURSIVE OsWalk(_, _, _, _)
RECURSIVE OsWalkInto(_, _, _, _, _)
OsWalk(D, F, top, ord) ==
    OsWalkInto(D, F, top, ord, ScanDirs(D, top, ord))
        \o << [root |-> top, dirs |-> ScanDirs(D, top, ord), files |-> ScanFiles(F, top, ord)] >>
OsWalkInto(D, F, top, ord, ds) ==
    IF ds = <<>> THEN <<>>
    ELSE OsWalk(D, F, Append(top, Head(ds)), ord) \o OsWalkInto(D, F, top, ord, Tail(ds))

\* [pathlib.Path(root) / name for name in names]
JoinAll(root, names) == [i \in 1..Len(names) |-> Append(root, names[i])]

\* the body of the three enumerators' loops over os.walk
RECURSIVE YieldDirs(_)
YieldDirs(triples) ==
    IF triples = <<>> THEN <<>>
    ELSE JoinAll(Head(triples).root, Head(triples).dirs) \o YieldDirs(Tail(triples))

RECURSIVE YieldFiles(_)
YieldFiles(triples) ==
    IF triples = <<>> THEN <<>>
    ELSE JoinAll(Head(triples).root, Head(triples).files) \o YieldFiles(Tail(triples))

RECURSIVE YieldDirsAndFiles(_)
YieldDirsAndFiles(triples) ==
    IF triples = <<>> THEN <<>>
    ELSE JoinAll(Head(triples).root, Head(triples).dirs)
            \o JoinAll(Head(triples).root, Head(triples).files)
            \o YieldDirsAndFiles(Tail(triples))

\* get_tree_dirs: the base directory first, then the directories of the walk
GetTreeDirs(D, F, base, ord) == <<base>> \o YieldDirs(OsWalk(D, F, base, ord))

\* get_tree_files: the files of the walk
GetTreeFiles(D, F, base, ord) == YieldFiles(OsWalk(D, F, base, ord))

\* get_path_recursive without its first yield
GetPathRecursiveNoBase(D, F, base, ord) == YieldDirsAndFiles(OsWalk(D, F, base, ord))

\* get_path_recursive: the base directory first, then per walked directory
\* its subdirectories and its files
GetPathRecursive(D, F, base, ord) == <<base>> \o YieldDirsAndFiles(OsWalk(D, F, base, ord))

----------------------------------------------------------------------------
(* fnmatch and the filter *)

\* fnmatch.fnmatch(name, pat) on POSIX (normcase is the identity): the whole
\* name against the pattern, "*" any run of characters ("/" included), "?"
\* any one character, any other character itself.  The patterns of the model
\* hold no "[".
RECURSIVE FnMatch(_, _)
FnMatch(s, pat) ==
    IF pat = <<>> THEN s = <<>>
    ELSE IF Head(pat) = "*"
        THEN FnMatch(s, Tail(pat)) \/ (s # <<>> /\ FnMatch(Tail(s), pat))
    ELSE IF Head(pat) = "?"
        THEN s # <<>> /\ FnMatch(Tail(s), Tail(pat))
    ELSE s # <<>> /\ Head(s) = Head(pat) /\ FnMatch(Tail(s), Tail(pat))

\* does_path_fnmatch_patterns: the first pattern that matches returns True
RECURSIVE DoesPathFnmatchPatterns(_, _)
DoesPathFnmatchPatterns(path, patterns) ==
    IF patterns = <<>> THEN FALSE
    ELSE IF FnMatch(Str(path), Head(patterns)) THEN TRUE
    ELSE DoesPathFnmatchPatterns(path, Tail(patterns))

\* an optional argument: None, or the value given
None == <<>>
Some(v) == <<v>>

\* get_default_if_none that forgets the default
GetDefaultIfNoneDropsDefault(arg, default) == IF arg = None THEN <<>> ELSE arg[1]

\* lib_parameter.get_default_if_none
GetDefaultIfNone(arg, default) == IF arg = None THEN default ELSE arg[1]

PatAll == <<"*">>
PatHidden == <<"*", "/", ".", "h", "*">>
PatHiddenOnly == <<"*", "/", ".", "h">>
PatA == <<"*", "/", "a">>
PatX == <<"*", "/", "?">>

\* the loop without its test of the unmatch patterns
RECURSIVE FilterLoopNoUnmatch(_, _, _)
FilterLoopNoUnmatch(paths, patterns_fn_match, patterns_fn_unmatch) ==
    IF paths = <<>> THEN <<>>
    ELSE IF DoesPathFnmatchPatterns(Head(paths), patterns_fn_match)
         THEN <<Head(paths)>> \o FilterLoopNoUnmatch(Tail(paths), patterns_fn_match, patterns_fn_unmatch)
         ELSE FilterLoopNoUnmatch(Tail(paths), patterns_fn_match, patterns_fn_unmatch)

\* the loop of filter_path_objects_fnmatch over paths with the defaults
\* already applied
RECURSIVE FilterLoop(_, _, _)
FilterLoop(paths, patterns_fn_match, patterns_fn_unmatch) ==
    IF paths = <<>> THEN <<>>
    ELSE LET path == Head(paths)
             rest == FilterLoop(Tail(paths), patterns_fn_match, patterns_fn_unmatch)
         IN IF DoesPathFnmatchPatterns(path, patterns_fn_match)
            THEN IF DoesPathFnmatchPatterns(path, patterns_fn_unmatch)
                 THEN rest
                 ELSE <<path>> \o rest
            ELSE rest

\* filter_path_objects_fnmatch
FilterPathObjectsFnmatch(paths, match, unmatch) ==
    FilterLoop(paths, GetDefaultIfNone(match, <<PatAll>>), GetDefaultIfNone(unmatch, <<>>))

\* sorted(paths, reverse=True): each path inserted before the first path
\* that is smaller than it
RECURSIVE InsertDescending(_, _)
InsertDescending(p, sorted) ==
    IF sorted = <<>> THEN <<p>>
    ELSE IF PathLess(Head(sorted), p) THEN <<p>> \o sorted
    ELSE <<Head(sorted)>> \o InsertDescending(p, Tail(sorted))

\* the list left as the enumerator yields it
NotSorted(paths) == paths

RECURSIVE SortedReverse(_)
SortedReverse(paths) ==
    IF paths = <<>> THEN <<>>
    ELSE InsertDescending(Head(paths), SortedReverse(Tail(paths)))

----------------------------------------------------------------------------
(* The initial filesystems and the arguments tried *)

\* a directory's name says that it is one: the plain name "x" is a file's
IsDirPath(p) == p = <<>> \/ p[Len(p)] \in DirNames

\* the trees with one more entry than tree T: a new entry in a directory of T
Extend(T) ==
    { T \cup {Append(p, n)} :
        p \in {q \in T \cup {<<>>} : IsDirPath(q)}, n \in Names }

\* every set of at most n entries below "/" closed under Parent
RECURSIVE Trees(_)
Trees(n) ==
    IF n = 0 THEN {{}}
    ELSE Trees(n - 1) \cup UNION {Extend(T) : T \in Trees(n - 1)}

\* the pairs of match and unmatch arguments tried: None is the argument left
\* out (the default), Some(<<>>) the empty list
PatternArgs ==
    { <<None, None>>,
      <<Some(<<>>), Some(<<>>)>>,
      <<Some(<<PatAll>>), Some(<<>>)>>,
      <<Some(<<PatAll>>), Some(<<PatHidden>>)>>,
      <<Some(<<PatA, PatX>>), Some(<<PatHiddenOnly>>)>>,
      <<Some(<<PatA>>), None>> }

\* the paths an operation is called on: every entry, and the directories
\* that could be created next below "/"
MissingDirs(D) == {<<n>> : n \in DirNames} \ D
CallPaths(D, F) == D \cup DOMAIN F \cup MissingDirs(D)

NoCall ==
    [ op |-> "none", base |-> <<>>, target |-> <<>>, match |-> None, unmatch |-> None,
      minimal_depth |-> 0, flag |-> FALSE, threaded |-> FALSE, paths |-> <<>> ]

\* the pool of copy_tree_fnmatch: ThreadPoolExecutor(max_workers=2)
MaxWorkers == 2

\* the state before any call, on the filesystem that holds tree T
InitOn(T) ==
    /\ dirs = {p \in T : IsDirPath(p)}
    /\ files = [p \in {q \in T : ~IsDirPath(q)} |-> ContentOf(p)]
    /\ dirs0 = {p \in T : IsDirPath(p)}
    /\ files0 = [p \in {q \in T : ~IsDirPath(q)} |-> ContentOf(p)]
    /\ call = NoCall
    /\ prev = NoCall
    /\ pc = "idle"
    /\ err = "none"
    /\ todo = <<>>
    /\ out = <<>>
    /\ workers = {}
    /\ ncalls = 0
    /\ mtime = [p \in T |-> MtimeOf(p)]
    /\ failures = {}

Init == \E T \in Trees(MaxEntries) : InitOn(T)

\* a call may start before any other has, and remove_empty_folders_recursive
\* may be run again on the same base directory once it has ended
CanCall(c) ==
    \/ pc = "idle"
    \/ /\ pc \in {"done", "failed"}
       /\ ncalls < MaxCalls
       /\ c.op = "remove_empty_folders_recursive"
       /\ call.op = c.op
       /\ call.base = c.base

\* what every call does first: it remembers the filesystem it started on
Begin(c) ==
    /\ CanCall(c)
    /\ call' = c
    /\ prev' = call
    /\ dirs0' = dirs
    /\ files0' = files
    /\ ncalls' = ncalls + 1
    /\ failures' = {}

\* the call raises e before it has touched anything
Raise(e) ==
    /\ pc' = "failed"
    /\ err' = e
    /\ UNCHANGED <<dirs, files, todo, out, workers, mtime>>

\* the loop has run out and no task is running (the pool's "with" block has
\* waited for its workers): the call returns
Return ==
    /\ pc = "running"
    /\ todo = <<>>
    /\ workers = {}
    /\ pc' = "done"
    /\ UNCHANGED <<dirs, files, call, err, todo, out, workers, dirs0, files0, prev, ncalls,
                   mtime, failures>>

----------------------------------------------------------------------------
(* lib_path, the helpers the operations call *)

\* lib_path.log_and_raise_if_path_does_not_exist and
\* lib_path.log_and_raise_if_not_isdir, in the order the three operations that
\* call both call them: the exception raised, "none" when neither raises
CheckExistsAndIsDir(D, F, p) ==
    IF ~Exists(D, F, p) THEN "FileNotFoundError"
    ELSE IF ~IsDir(D, p) THEN "NotADirectoryError"
    ELSE "none"

\* lib_path.log_and_raise_if_not_isdir alone
CheckIsDir(D, p) == IF ~IsDir(D, p) THEN "NotADirectoryError" ELSE "none"

\* lib_path.has_subdirs: the directory holds at least one directory
HasSubdirs(D, p) == \E q \in D : Parent(q) = p

\* is_directory_empty that looks for directories only
IsDirectoryEmptyIgnoringFiles(D, F, p) == ~\E q \in D : Parent(q) = p

\* lib_path.is_directory_empty: the directory holds no entry
IsDirectoryEmpty(D, F, p) == ListDir(D, F, p) = {}

----------------------------------------------------------------------------
(* remove_folders_recursive_fnmatch *)

\* get_tree_dirs_fnmatch
GetTreeDirsFnmatch(D, F, base, match, unmatch, ord) ==
    FilterPathObjectsFnmatch(GetTreeDirs(D, F, base, ord), match, unmatch)

\* the guard with the anchor not counted among the parts
MinimalDepthCheckOffByOne(base, minimal_depth) ==
    IF NumParts(base) < minimal_depth THEN "RuntimeError" ELSE "none"

\* the guard on minimal_depth: the exception raised, "none" when none is
MinimalDepthCheck(base, minimal_depth) ==
    IF NumParts(base) < minimal_depth + 1 THEN "RuntimeError" ELSE "none"

\* the list the loop of remove_folders_recursive_fnmatch runs over
RemoveFoldersList(D, F, base, match, unmatch, ord) ==
    SortedReverse(GetTreeDirsFnmatch(D, F, base, match, unmatch, ord))

\* the call up to its loop: the checks, the enumeration, the sort
RemoveFoldersStart ==
    \E base \in CallPaths(dirs, files), pats \in PatternArgs,
       minimal_depth \in 0..MaxMinimalDepth, ord \in ScanOrders :
        /\ Begin([NoCall EXCEPT !.op = "remove_folders_recursive_fnmatch", !.base = base,
                    !.match = pats[1], !.unmatch = pats[2], !.minimal_depth = minimal_depth])
        /\ IF CheckExistsAndIsDir(dirs, files, base) # "none"
           THEN Raise(CheckExistsAndIsDir(dirs, files, base))
           ELSE IF MinimalDepthCheck(base, minimal_depth) # "none"
           THEN Raise(MinimalDepthCheck(base, minimal_depth))
           ELSE /\ todo' = RemoveFoldersList(dirs, files, base, pats[1], pats[2], ord)
                /\ pc' = "running"
                /\ UNCHANGED <<dirs, files, err, out, workers, mtime>>

\* rmtree that empties the directory and leaves it standing
RmtreeKeepsTop(D, path_dir) == D \ (DirsUnder(D, path_dir) \ {path_dir})

\* rmtree that leaves the files where they are
RmtreeKeepsFiles(F, path_dir) == F

\* shutil.rmtree(path_dir, ignore_errors=True): the directory and all it holds
RmtreeDirs(D, path_dir) == D \ DirsUnder(D, path_dir)
RmtreeFiles(F, path_dir) == [q \in DOMAIN F \ FilesUnder(F, path_dir) |-> F[q]]

\* the loop's body without its test of has_subdirs
RemoveFoldersTestAlways(D, path_dir) == TRUE

\* whether the loop's body removes path_dir
RemoveFoldersTest(D, path_dir) == ~HasSubdirs(D, path_dir)

\* one turn of the loop
RemoveFoldersStep ==
    /\ pc = "running"
    /\ call.op = "remove_folders_recursive_fnmatch"
    /\ todo # <<>>
    /\ IF RemoveFoldersTest(dirs, Head(todo))
       THEN /\ dirs' = RmtreeDirs(dirs, Head(todo))
            /\ files' = RmtreeFiles(files, Head(todo))
            /\ mtime' = Removed(mtime, DOMAIN mtime \ (dirs' \cup DOMAIN files'), Head(todo))
       ELSE UNCHANGED <<dirs, files, mtime>>
    /\ todo' = Tail(todo)
    /\ UNCHANGED <<call, pc, err, out, workers, dirs0, files0, prev, ncalls, failures>>

RemoveFoldersNext == RemoveFoldersStart \/ RemoveFoldersStep \/ Return

SpecRemoveFolders == Init /\ [][RemoveFoldersNext]_vars

----------------------------------------------------------------------------
(* remove_empty_folders_recursive *)

\* the list as get_tree_dirs yields it, not sorted
RemoveEmptyListUnsorted(D, F, base, ord) == GetTreeDirs(D, F, base, ord)

\* the list the loop of remove_empty_folders_recursive runs over
RemoveEmptyList(D, F, base, ord) == SortedReverse(GetTreeDirs(D, F, base, ord))

\* the call up to its loop
RemoveEmptyStart ==
    \E base \in CallPaths(dirs, files), ord \in ScanOrders :
        /\ Begin([NoCall EXCEPT !.op = "remove_empty_folders_recursive", !.base = base])
        /\ IF CheckExistsAndIsDir(dirs, files, base) # "none"
           THEN Raise(CheckExistsAndIsDir(dirs, files, base))
           ELSE /\ todo' = RemoveEmptyList(dirs, files, base, ord)
                /\ pc' = "running"
                /\ err' = "none"
                /\ UNCHANGED <<dirs, files, out, workers, mtime>>

\* whether the loop's body removes path_folder
RemoveEmptyTest(D, F, path_folder) == IsDirectoryEmpty(D, F, path_folder)

\* one turn of the loop: path_folder.rmdir() if the folder is empty
RemoveEmptyStep ==
    /\ pc = "running"
    /\ call.op = "remove_empty_folders_recursive"
    /\ todo # <<>>
    /\ IF RemoveEmptyTest(dirs, files, Head(todo))
       THEN /\ dirs' = dirs \ {Head(todo)}
            /\ mtime' = Removed(mtime, DOMAIN mtime \ (dirs' \cup DOMAIN files), Head(todo))
       ELSE UNCHANGED <<dirs, mtime>>
    /\ todo' = Tail(todo)
    /\ UNCHANGED <<files, call, pc, err, out, workers, dirs0, files0, prev, ncalls, failures>>

RemoveEmptyNext == RemoveEmptyStart \/ RemoveEmptyStep \/ Return

SpecRemoveEmpty == Init /\ [][RemoveEmptyNext]_vars

----------------------------------------------------------------------------
(* The two pruning operations, side by side *)

PruneNext == RemoveEmptyNext \/ RemoveFoldersNext

SpecPrune == Init /\ [][PruneNext]_vars

----------------------------------------------------------------------------
(* get_path_recursive and get_tree_path_fnmatch *)

\* get_path_recursive run to its end: the check, then the walk
GetPathRecursiveCall ==
    \E base \in CallPaths(dirs, files), ord \in ScanOrders :
        /\ Begin([NoCall EXCEPT !.op = "get_path_recursive", !.base = base])
        /\ IF CheckIsDir(dirs, base) # "none"
           THEN Raise(CheckIsDir(dirs, base))
           ELSE /\ out' = GetPathRecursive(dirs, files, base, ord)
                /\ pc' = "done"
                /\ UNCHANGED <<dirs, files, err, todo, workers, mtime>>

\* get_tree_path_fnmatch
GetTreePathFnmatch(D, F, base, match, unmatch, ord) ==
    FilterPathObjectsFnmatch(GetPathRecursive(D, F, base, ord), match, unmatch)

\* get_tree_path_fnmatch with its result read to the end
GetTreePathFnmatchCall ==
    \E base \in CallPaths(dirs, files), pats \in PatternArgs, ord \in ScanOrders :
        /\ Begin([NoCall EXCEPT !.op = "get_tree_path_fnmatch", !.base = base,
                    !.match = pats[1], !.unmatch = pats[2]])
        /\ IF CheckExistsAndIsDir(dirs, files, base) # "none"
           THEN Raise(CheckExistsAndIsDir(dirs, files, base))
           ELSE /\ out' = GetTreePathFnmatch(dirs, files, base, pats[1], pats[2], ord)
                /\ pc' = "done"
                /\ UNCHANGED <<dirs, files, err, todo, workers, mtime>>

ListNext == GetPathRecursiveCall \/ GetTreePathFnmatchCall

SpecList == Init /\ [][ListNext]_vars

----------------------------------------------------------------------------
(* expand_paths_subdirs_recursive *)

\* the loop over paths: l_path_files with its repetitions
RECURSIVE ExpandLoop(_, _, _, _, _)
ExpandLoop(D, F, paths, expand_subdirs, ord) ==
    IF paths = <<>> THEN <<>>
    ELSE LET path == Head(paths)
             rest == ExpandLoop(D, F, Tail(paths), expand_subdirs, ord)
         IN IF IsFile(F, path) THEN <<path>> \o rest
            ELSE IF IsDir(D, path) /\ expand_subdirs
                 THEN GetTreeFiles(D, F, path, ord) \o rest
                 ELSE rest

Range(seq) == {seq[i] : i \in 1..Len(seq)}

\* list(l): the repetitions kept
ListKeepingRepetitions(l) == {l}

\* list(set(l)): the members of l once each, in an order of the set's choosing
ListOfSet(l) ==
    {seq \in [1..Cardinality(Range(l)) -> Range(l)] : Range(seq) = Range(l)}

\* what expand_paths_subdirs_recursive may return
ExpandPathsSubdirsRecursive(D, F, paths, expand_subdirs, ord) ==
    ListOfSet(ExpandLoop(D, F, paths, expand_subdirs, ord))

\* the lists of at most n paths of the filesystem, repetitions included
CallPathLists(D, F, n) == UNION {[1..k -> CallPaths(D, F)] : k \in 0..n}

\* the whole call
ExpandCall ==
    \E paths \in CallPathLists(dirs, files, MaxPaths), expand_subdirs \in BOOLEAN,
       ord \in ScanOrders :
        /\ Begin([NoCall EXCEPT !.op = "expand_paths_subdirs_recursive", !.paths = paths,
                    !.flag = expand_subdirs])
        /\ out' \in ExpandPathsSubdirsRecursive(dirs, files, paths, expand_subdirs, ord)
        /\ pc' = "done"
        /\ UNCHANGED <<dirs, files, err, todo, workers, mtime>>

\* the lists multiply the calls: the trees are one entry smaller here
InitExpand == \E T \in Trees(MaxEntries - 1) : InitOn(T)

SpecExpand == InitExpand /\ [][ExpandCall]_vars

----------------------------------------------------------------------------
(* copy_tree_fnmatch *)

\* str.find(old, i): where old first occurs in s at or after i, 0 if nowhere
RECURSIVE FindFrom(_, _, _)
FindFrom(s, old, i) ==
    IF i + Len(old) - 1 > Len(s) THEN 0
    ELSE IF SubSeq(s, i, i + Len(old) - 1) = old THEN i
    ELSE FindFrom(s, old, i + 1)

\* s.replace(old, new): every occurrence, left to right
RECURSIVE ReplaceEvery(_, _, _)
ReplaceEvery(s, old, new) ==
    IF FindFrom(s, old, 1) = 0 THEN s
    ELSE SubSeq(s, 1, FindFrom(s, old, 1) - 1) \o new
            \o ReplaceEvery(SubSeq(s, FindFrom(s, old, 1) + Len(old), Len(s)), old, new)

\* s.replace(old, new, 1): the first occurrence only
ReplaceFirst(s, old, new) ==
    IF FindFrom(s, old, 1) = 0 THEN s
    ELSE SubSeq(s, 1, FindFrom(s, old, 1) - 1) \o new
            \o SubSeq(s, FindFrom(s, old, 1) + Len(old), Len(s))

\* pathlib.Path(s) for an absolute s: the names between the slashes
RECURSIVE ParseNames(_, _)
ParseNames(s, name) ==
    IF s = <<>> THEN (IF name = <<>> THEN <<>> ELSE <<name>>)
    ELSE IF Head(s) = "/"
         THEN (IF name = <<>> THEN <<>> ELSE <<name>>) \o ParseNames(Tail(s), <<>>)
         ELSE ParseNames(Tail(s), Append(name, Head(s)))

ParsePath(s) == ParseNames(s, <<>>)

\* path_target of the loops of copy_tree_fnmatch
PathTarget(path_source, path_source_dir, path_target_dir) ==
    ParsePath(ReplaceFirst(Str(path_source), Str(path_source_dir), Str(path_target_dir)))

\* the check left out
CheckTargetWithinSourceNever(source, target) == "none"

\* lib_path.log_and_raise_if_target_directory_within_source_directory
CheckTargetWithinSource(source, target) ==
    IF IsPrefix(source, target) THEN "FileExistsError" ELSE "none"

\* the source and target directories tried: the source an entry, or an absent
\* directory, directly below "/"; the target another directory below "/",
\* present or absent, or a directory inside the source
CopySources(D, F) == {p \in CallPaths(D, F) : Len(p) = 1}
CopyTargets(source) ==
    {<<n>> : n \in DirNames \ {source[1]}} \cup {Append(source, NameA)}

\* the pattern arguments tried with copy_tree_fnmatch
CopyPatternArgs ==
    { <<None, None>>,
      <<Some(<<PatAll>>), Some(<<PatHiddenOnly>>)>>,
      <<Some(<<PatA, PatX>>), Some(<<>>)>> }

\* the call up to its loop.  get_tree_path_fnmatch is a pipeline of
\* generators read by the loop; the walk reads the source only and the tasks
\* write below the target only, which the arguments tried keep apart, so the
\* paths are those of the source as the call finds it.
CopyStart ==
    \E source \in CopySources(dirs, files), pats \in CopyPatternArgs,
       create_empty_directories \in BOOLEAN, threaded \in BOOLEAN, ord \in ScanOrders :
      \E target \in CopyTargets(source) :
        /\ Begin([NoCall EXCEPT !.op = "copy_tree_fnmatch", !.base = source,
                    !.target = target, !.match = pats[1], !.unmatch = pats[2],
                    !.flag = create_empty_directories, !.threaded = threaded])
        /\ IF CheckIsDir(dirs, source) # "none"
           THEN Raise(CheckIsDir(dirs, source))
           ELSE IF CheckTargetWithinSource(source, target) # "none"
           THEN Raise(CheckTargetWithinSource(source, target))
           ELSE IF CheckExistsAndIsDir(dirs, files, source) # "none"
           THEN Raise(CheckExistsAndIsDir(dirs, files, source))
           ELSE /\ todo' = GetTreePathFnmatch(dirs, files, source,
                                Some(GetDefaultIfNone(pats[1], <<PatAll>>)),
                                Some(GetDefaultIfNone(pats[2], <<>>)), ord)
                /\ pc' = "running"
                /\ UNCHANGED <<dirs, files, err, out, workers, mtime>>

InCopy == pc = "running" /\ call.op = "copy_tree_fnmatch"

\* the threads that run tasks: the pool's workers, or the caller alone
Threads(c) == IF c.threaded THEN MaxWorkers ELSE 1

\* the directories copy_path_object_with_metadata makes for a directory that
\* is copied although copy_empty_directories is false
MkdirsIgnoringFlag(source_is_dir, path_target, copy_empty_directories) ==
    IF source_is_dir THEN <<path_target>> ELSE <<Parent(path_target)>>

\* the directory copy_path_object_with_metadata calls mkdir(parents=True,
\* exist_ok=True) on, none for a directory when copy_empty_directories is false
Mkdirs(source_is_dir, path_target, copy_empty_directories) ==
    IF source_is_dir
    THEN (IF copy_empty_directories THEN <<path_target>> ELSE <<>>)
    ELSE <<Parent(path_target)>>

\* the next path of the loop is made a task, and a free thread starts on it:
\* copy_path_object_with_metadata up to its first system call
CopyTake ==
    /\ InCopy
    /\ todo # <<>>
    /\ Cardinality(workers) < Threads(call)
    /\ LET src == Head(todo)
           dst == PathTarget(src, call.base, call.target)
           stack == Mkdirs(IsDir(dirs, src), dst, call.flag)
       IN workers' = IF stack = <<>> THEN workers
                     ELSE workers \cup {[src |-> src, dst |-> dst, step |-> "mkdir", stack |-> stack]}
    /\ todo' = Tail(todo)
    /\ UNCHANGED <<dirs, files, call, pc, err, out, dirs0, files0, prev, ncalls,
                   mtime, failures>>

\* what a thread does once the directories of its task exist
AfterMkdir(w) == IF IsDir(dirs, w.src) THEN "copystat" ELSE "copy2"

\* a thread with the directory on top of its stack dealt with
Popped(w) ==
    IF Len(w.stack) = 1
    THEN [w EXCEPT !.stack = <<>>, !.step = AfterMkdir(w)]
    ELSE [w EXCEPT !.stack = Tail(w.stack)]

\* mkdir called with exist_ok=False
MkdirNotExistOk == FALSE

\* the exist_ok argument of both calls of mkdir
MkdirExistOk == TRUE

\* the task of thread w raises e.  In the pool the exception is kept in the
\* Future that tp.submit returned, which copy_tree_fnmatch drops: the loop
\* goes on and nothing is raised.  In the sequential loop the exception leaves
\* copy_tree_fnmatch: the paths still to do are never copied.
TaskRaises(w, e) ==
    /\ workers' = workers \ {w}
    /\ failures' = failures \cup {w.src}
    /\ IF call.threaded
       THEN UNCHANGED <<pc, err>>
       ELSE pc' = "failed" /\ err' = e

\* one os.mkdir of Path.mkdir(parents=True, exist_ok=True): the directory is
\* there already (FileExistsError, passed over because of exist_ok), its
\* parent is missing (FileNotFoundError: the parent is made first, then this
\* one again), or it is made
CopyMkdir ==
    /\ InCopy
    /\ \E w \in workers :
        /\ w.step = "mkdir"
        /\ LET d == Head(w.stack) IN
            IF IsDir(dirs, d)
            THEN IF MkdirExistOk
                 THEN /\ workers' = (workers \ {w}) \cup {Popped(w)}
                      /\ UNCHANGED <<dirs, mtime, pc, err, failures>>
                 ELSE /\ TaskRaises(w, "FileExistsError")
                      /\ UNCHANGED <<dirs, mtime>>
            ELSE IF ~IsDir(dirs, Parent(d))
            THEN /\ workers' = (workers \ {w}) \cup {[w EXCEPT !.stack = <<Parent(d)>> \o w.stack]}
                 /\ UNCHANGED <<dirs, mtime, pc, err, failures>>
            ELSE /\ workers' = (workers \ {w}) \cup {Popped(w)}
                 /\ dirs' = dirs \cup {d}
                 /\ mtime' = Created(mtime, d)
                 /\ UNCHANGED <<pc, err, failures>>
    /\ UNCHANGED <<files, call, todo, out, dirs0, files0, prev, ncalls>>

\* copy_metadata_of_path_object of a directory: shutil.copystat, which
\* changes neither the entries nor their contents; the task is done
CopyStat ==
    /\ InCopy
    /\ \E w \in workers :
        /\ w.step = "copystat"
        /\ mtime' = CopyStatMtime(mtime, w.src, w.dst)
        /\ workers' = workers \ {w}
    /\ UNCHANGED <<dirs, files, call, pc, err, todo, out, dirs0, files0, prev, ncalls,
                   failures>>

\* shutil.copy2(path_source, path_target): the target holds the source's data
Copy2(F, path_source, path_target) ==
    [q \in DOMAIN F \cup {path_target} |-> IF q = path_target THEN F[path_source] ELSE F[q]]

\* ... and the source's st_mtime (copy2 is copyfile, then copystat); a target
\* that was not there is a new entry of its directory
Copy2Mtime(M, path_source, path_target) ==
    CopyStatMtime(IF path_target \in DOMAIN M THEN M ELSE Created(M, path_target),
                  path_source, path_target)

\* shutil.copy2 of a file; the task is done
CopyFile ==
    /\ InCopy
    /\ \E w \in workers :
        /\ w.step = "copy2"
        /\ files' = Copy2(files, w.src, w.dst)
        /\ mtime' = Copy2Mtime(mtime, w.src, w.dst)
        /\ workers' = workers \ {w}
    /\ UNCHANGED <<dirs, call, pc, err, todo, out, dirs0, files0, prev, ncalls, failures>>

\* shutil.copy2 of a file raises (the source cannot be read): nothing is
\* written
CopyFileFails ==
    /\ InCopy
    /\ \E w \in workers :
        /\ w.step = "copy2"
        /\ TaskRaises(w, "PermissionError")
    /\ UNCHANGED <<dirs, files, call, todo, out, dirs0, files0, prev, ncalls, mtime>>

CopyNext == CopyStart \/ CopyTake \/ CopyMkdir \/ CopyStat \/ CopyFile \/ Return

\* the tasks interleave: the trees are one entry smaller here
InitCopy == \E T \in Trees(MaxEntries - 1) : InitOn(T)

SpecCopy == InitCopy /\ [][CopyNext]_vars

\* the copy on a filesystem where reading a file may fail
CopyFaultyNext == CopyNext \/ CopyFileFails

\* a copy that fails needs a second file to leave behind: the trees are those
\* of Init
SpecCopyFaulty == Init /\ [][CopyFaultyNext]_vars

----------------------------------------------------------------------------
(* The three operations that change the filesystem, side by side *)

MutatingNext == CopyNext \/ RemoveEmptyNext \/ RemoveFoldersNext

SpecMutating == InitCopy /\ [][MutatingNext]_vars

----------------------------------------------------------------------------
(* filter_path_objects_fnmatch, called on a list of paths of the caller's *)

\* the paths the lists handed to the filter are made of: the filter never
\* looks at the filesystem
FilterPaths ==
    { <<NameA>>, <<NameH>>, <<NameA, NameX>>, <<NameA, NameH>>, <<NameH, NameX>> }

\* the lists of at most n of them, repetitions included
PathLists(n) == UNION {[1..k -> FilterPaths] : k \in 0..n}

\* the whole call: the generator run to its end
FilterCall ==
    \E paths \in PathLists(MaxPaths), pats \in PatternArgs :
        /\ Begin([NoCall EXCEPT !.op = "filter_path_objects_fnmatch", !.paths = paths,
                    !.match = pats[1], !.unmatch = pats[2]])
        /\ out' = FilterPathObjectsFnmatch(paths, pats[1], pats[2])
        /\ pc' = "done"
        /\ UNCHANGED <<dirs, files, err, todo, workers, mtime>>

\* the filter reads no filesystem: the empty one will do
InitFilter == InitOn({})

SpecFilter == InitFilter /\ [][FilterCall]_vars

----------------------------------------------------------------------------
(* What the claims speak of *)

\* path matches at least one of the patterns
MatchesAny(path, patterns) ==
    \E i \in 1..Len(patterns) : FnMatch(Str(path), patterns[i])

\* the patterns in force when the argument is left out
MatchOf(c) == IF c.match = None THEN <<PatAll>> ELSE c.match[1]
UnmatchOf(c) == IF c.unmatch = None THEN <<>> ELSE c.unmatch[1]

\* the filter's rule: some match pattern matches and no unmatch pattern does
Selected(path, c) ==
    MatchesAny(path, MatchOf(c)) /\ ~MatchesAny(path, UnmatchOf(c))

\* the directories present at the call that fail the filter of call c
FailingDirs(c) == {d \in dirs0 : ~Selected(d, c)}

\* ... and those that hold one of them at any depth, or are one
HoldingFailingDirs(c) == {d \in dirs0 : \E k \in FailingDirs(c) : IsPrefix(d, k)}

InRemoveFolders == call.op = "remove_folders_recursive_fnmatch"

----------------------------------------------------------------------------
(* The claims *)

\* C2: remove_folders_recursive_fnmatch never deletes a directory that fails
\* the filter, nor a directory that holds, at any depth, a directory that
\* fails the filter: at every point of the call, and so at its end, all of
\* them still exist.
C2_FailingDirsSurvive ==
    InRemoveFolders => HoldingFailingDirs(call) \subseteq dirs

\* C2's case: the call has ended, it deleted something, and a directory two
\* or more levels below the base, excluded by an unmatch pattern, was kept
\* together with the directories above it
C2_Witness ==
    /\ InRemoveFolders
    /\ pc = "done"
    /\ dirs # dirs0
    /\ \E k \in FailingDirs(call) :
        /\ IsPrefix(call.base, k)
        /\ Len(k) >= Len(call.base) + 2
        /\ MatchesAny(k, UnmatchOf(call))
        /\ Selected(Parent(k), call)

\* C3: remove_folders_recursive_fnmatch called on a base directory with fewer
\* names below the anchor than minimal_depth fails with RuntimeError before
\* it lists or deletes anything: nothing is queued and the filesystem is as
\* it was before the call (a base that is no directory fails as well, with
\* the error of that check).
C3_MinimalDepthGuard ==
    (InRemoveFolders /\ Len(call.base) < call.minimal_depth) =>
        /\ pc = "failed"
        /\ IsDir(dirs0, call.base) => err = "RuntimeError"
        /\ todo = <<>>
        /\ dirs = dirs0
        /\ files = files0

\* C3's case: the guard has refused a base directory that holds directories
\* and files the call would otherwise have deleted
C3_Witness ==
    /\ InRemoveFolders
    /\ pc = "failed"
    /\ err = "RuntimeError"
    /\ call.match = None
    /\ call.unmatch = None
    /\ Len(call.base) = 1
    /\ call.minimal_depth = 2
    /\ \E d \in dirs : Parent(d) = call.base
    /\ \E f \in DOMAIN files : Parent(f) = call.base

InFilter == call.op = "filter_path_objects_fnmatch"

\* C1: filter_path_objects_fnmatch yields, in input order, exactly the input
\* paths that match at least one match pattern and no unmatch pattern; a
\* path that matches a pattern of both lists is never yielded.
C1_FilterSelects ==
    InFilter =>
        /\ out = SelectSeq(call.paths, LAMBDA p : Selected(p, call))
        /\ \A i \in 1..Len(out) : ~MatchesAny(out[i], UnmatchOf(call))

\* C1's case: a list with a path that matches a pattern of both lists and a
\* path that is yielded
C1_Witness ==
    /\ InFilter
    /\ pc = "done"
    /\ Len(out) >= 1
    /\ \E i \in 1..Len(call.paths) :
        /\ MatchesAny(call.paths[i], MatchOf(call))
        /\ MatchesAny(call.paths[i], UnmatchOf(call))

\* C9 as stated: with an empty match list and an empty unmatch list the
\* filter selects every input path.
C9_EmptyMatchSelectsAll ==
    (InFilter /\ call.match = Some(<<>>) /\ call.unmatch = Some(<<>>)) =>
        out = call.paths

\* C9 as amended: a match list left out (None) behaves as ['*'], and with
\* the unmatch list left out or empty every input path is selected; an empty
\* match list is no default: it selects no path.
C9_OmittedMatchSelectsAll ==
    InFilter =>
        /\ call.match = None =>
            out = FilterLoop(call.paths, <<PatAll>>, UnmatchOf(call))
        /\ (call.match = None /\ UnmatchOf(call) = <<>>) => out = call.paths
        /\ call.match = Some(<<>>) => out = <<>>

\* C9's case: the match list left out, a list of two paths, both yielded
C9_Witness ==
    /\ InFilter
    /\ pc = "done"
    /\ call.match = None
    /\ call.unmatch = None
    /\ Len(call.paths) >= 2
    /\ out = call.paths

InList == call.op \in {"get_path_recursive", "get_tree_path_fnmatch"}

\* C5: get_path_recursive, and get_tree_path_fnmatch with match=['*'] and
\* unmatch=[], return every directory and every file under the base
\* directory, the base itself and the dotted entries included, each exactly
\* once, and nothing else.
C5_ListsEveryEntryOnce ==
    ( /\ InList
      /\ pc = "done"
      /\ \/ call.op = "get_path_recursive"
         \/ call.match = Some(<<PatAll>>) /\ call.unmatch = Some(<<>>) ) =>
        /\ Range(out) = DirsUnder(dirs, call.base) \cup FilesUnder(files, call.base)
        /\ call.base \in Range(out)
        /\ Len(out) = Cardinality(Range(out))

\* C5's case: get_tree_path_fnmatch(base, ['*'], []) on a base that holds a
\* file and a dotted directory with a file in it
C5_Witness ==
    /\ call.op = "get_tree_path_fnmatch"
    /\ pc = "done"
    /\ call.match = Some(<<PatAll>>)
    /\ call.unmatch = Some(<<>>)
    /\ Append(call.base, NameX) \in Range(out)
    /\ Append(call.base, NameH) \in Range(out)
    /\ Append(Append(call.base, NameH), NameX) \in Range(out)

InRemoveEmpty == call.op = "remove_empty_folders_recursive"

\* C8: a run of remove_empty_folders_recursive directly after a run on the
\* same base directory, which still exists, raises no error and changes
\* nothing: at every point of the second run the directories and files are
\* those the first run left.
C8_SecondRunChangesNothing ==
    ( /\ InRemoveEmpty
      /\ prev.op = "remove_empty_folders_recursive"
      /\ prev.base = call.base
      /\ IsDir(dirs0, call.base) ) =>
        /\ pc # "failed"
        /\ err = "none"
        /\ dirs = dirs0
        /\ files = files0

\* C8's case: the second run has ended on a base directory that the first
\* run left with a subdirectory and a file in it
C8_Witness ==
    /\ InRemoveEmpty
    /\ prev.op = "remove_empty_folders_recursive"
    /\ prev.base = call.base
    /\ ncalls = 2
    /\ pc = "done"
    /\ \E d \in dirs : Parent(d) = call.base /\ \E f \in DOMAIN files : Parent(f) = d

InExpand == call.op = "expand_paths_subdirs_recursive"

\* the files below the directories among paths
FilesBelow(paths) ==
    {f \in DOMAIN files : \E i \in 1..Len(paths) :
        IsDir(dirs, paths[i]) /\ IsPrefix(paths[i], f)}

\* C10: expand_paths_subdirs_recursive returns, without repetition, files
\* only: the input paths that are files and, when expand_subdirs is true,
\* every file at any depth under an input directory; with expand_subdirs
\* false the input directories add nothing.
C10_ExpandReturnsFilesOnce ==
    (InExpand /\ pc = "done") =>
        /\ Len(out) = Cardinality(Range(out))
        /\ Range(out) \subseteq DOMAIN files
        /\ Range(out) = {p \in Range(call.paths) : IsFile(files, p)}
                          \cup (IF call.flag THEN FilesBelow(call.paths) ELSE {})

\* C10's case: a directory given together with a file below it, which is
\* returned once
C10_Witness ==
    /\ InExpand
    /\ pc = "done"
    /\ call.flag
    /\ Len(out) = 1
    /\ \E i, j \in 1..Len(call.paths) :
        /\ IsDir(dirs, call.paths[i])
        /\ IsFile(files, call.paths[j])
        /\ IsPrefix(call.paths[i], call.paths[j])
        /\ Len(call.paths[j]) >= Len(call.paths[i]) + 2

\* path p as seen from base, and its counterpart below the target of call c
Rel(p, base) == SubSeq(p, Len(base) + 1, Len(p))
Counterpart(p, c) == c.target \o Rel(p, c.base)
RelSet(paths, base) == {Rel(paths[i], base) : i \in 1..Len(paths)}

CopyDone == call.op = "copy_tree_fnmatch" /\ pc = "done"

\* the target of call c held nothing when the call started
TargetWasEmpty(c) ==
    /\ DirsUnder(dirs0, c.target) \subseteq {c.target}
    /\ FilesUnder(files0, c.target) = {}

\* C4: after copy_tree_fnmatch with the default patterns (and the default
\* create_empty_directories=True) into an empty target, listing the target
\* gives the relative paths that listing the source gives, directories and
\* files alike, and every file of the target holds what its source holds;
\* with threaded=True, under every interleaving, and with threaded=False.
C4_CopyRoundTrip ==
    ( /\ CopyDone
      /\ call.match = None
      /\ call.unmatch = None
      /\ call.flag
      /\ TargetWasEmpty(call) ) =>
        /\ \A ord \in ScanOrders :
             RelSet(GetPathRecursive(dirs, files, call.target, ord), call.target)
               = RelSet(GetPathRecursive(dirs, files, call.base, ord), call.base)
        /\ {Rel(d, call.target) : d \in DirsUnder(dirs, call.target)}
             = {Rel(d, call.base) : d \in DirsUnder(dirs0, call.base)}
        /\ {Rel(f, call.target) : f \in FilesUnder(files, call.target)}
             = {Rel(f, call.base) : f \in FilesUnder(files0, call.base)}
        /\ \A f \in FilesUnder(files0, call.base) :
             /\ Counterpart(f, call) \in DOMAIN files
             /\ files[Counterpart(f, call)] = files0[f]

\* C4's case: a threaded copy with the defaults has ended; the source holds a
\* directory below the base and a file, and the target did not exist
C4_Witness ==
    /\ CopyDone
    /\ call.threaded
    /\ call.match = None
    /\ call.unmatch = None
    /\ call.flag
    /\ call.target \notin dirs0
    /\ \E d \in dirs0 : Parent(d) = call.base
    /\ FilesUnder(files, call.target) # {}

InMutating ==
    call.op \in {"copy_tree_fnmatch", "remove_empty_folders_recursive",
                 "remove_folders_recursive_fnmatch"}

\* the call raised before it listed or changed anything
FailedUntouched ==
    /\ pc = "failed"
    /\ err # "none"
    /\ todo = <<>>
    /\ workers = {}
    /\ dirs = dirs0
    /\ files = files0

SelectedFiles(c) == {f \in FilesUnder(files0, c.base) : Selected(f, c)}
SelectedDirs(c) == {d \in DirsUnder(dirs0, c.base) : Selected(d, c)}

\* the directories strictly inside the target of c that lie above path p
AncestorsInTarget(p, c) ==
    {q \in Ancestors(p) : IsPrefix(c.target, q) /\ q # c.target}

\* the directories of the target that lie above a copied file, the
\* counterparts of the selected directories, and the directories above these
AboveCopiedFiles(c) ==
    UNION {AncestorsInTarget(Counterpart(f, c), c) : f \in SelectedFiles(c)}
SelectedDirCounterparts(c) ==
    {Counterpart(d, c) : d \in SelectedDirs(c)} \ {c.target}
AboveSelectedDirs(c) ==
    UNION {AncestorsInTarget(Counterpart(d, c), c) : d \in SelectedDirs(c)}

\* the target holds the counterparts of the selected files and no other file
TargetFilesAreSelected(c) ==
    /\ FilesUnder(files, c.target) = {Counterpart(f, c) : f \in SelectedFiles(c)}
    /\ \A f \in SelectedFiles(c) : files[Counterpart(f, c)] = files0[f]

DirsInTarget(c) == DirsUnder(dirs, c.target) \ {c.target}

\* C7 as stated: after a copy into an empty target, the target holds the
\* counterparts of the selected files, the directories above them, and the
\* counterparts of the selected directories iff create_empty_directories is
\* true, and nothing else.
C7_TargetHoldsOnlySelected ==
    (CopyDone /\ TargetWasEmpty(call)) =>
        /\ TargetFilesAreSelected(call)
        /\ DirsInTarget(call) =
             AboveCopiedFiles(call)
               \cup (IF call.flag THEN SelectedDirCounterparts(call) ELSE {})

\* C7 as amended: ... the directories above the copied files and, iff
\* create_empty_directories is true, the counterparts of the selected
\* directories together with the directories above these (mkdir makes the
\* parents of a selected directory, selected or not), and nothing else; with
\* create_empty_directories false a directory is in the target only if it
\* lies above a copied file.
C7_TargetHoldsSelectedAndParents ==
    (CopyDone /\ TargetWasEmpty(call)) =>
        /\ TargetFilesAreSelected(call)
        /\ DirsInTarget(call) =
             AboveCopiedFiles(call)
               \cup (IF call.flag
                     THEN SelectedDirCounterparts(call) \cup AboveSelectedDirs(call)
                     ELSE {})

\* C7's case: a copy with create_empty_directories false has ended: a
\* selected file was copied with the directory above it, and a selected
\* directory of the source has no counterpart
C7_Witness ==
    /\ CopyDone
    /\ TargetWasEmpty(call)
    /\ ~call.flag
    /\ \E f \in SelectedFiles(call) :
          /\ Counterpart(f, call) \in DOMAIN files
          /\ Parent(Counterpart(f, call)) \in dirs
    /\ \E d \in SelectedDirs(call) : Counterpart(d, call) \notin dirs

\* the entries of the source of call c, the base directory left out
SourceEntriesBelowBase(c) ==
    (DirsUnder(dirs0, c.base) \cup FilesUnder(files0, c.base)) \ {c.base}

\* the counterpart of source entry p exists and carries p's modification time
CarriesSourceMtime(p, c) ==
    /\ Counterpart(p, c) \in DOMAIN mtime
    /\ mtime[Counterpart(p, c)] = mtime[p]

\* C11: when copy_tree_fnmatch with the default patterns (and the default
\* create_empty_directories=True) has completed, every entry inside the
\* target, file or directory, carries the modification time of its source
\* counterpart, with threaded=False and, under every interleaving of the two
\* workers, with threaded=True.  (The target directory itself is left out
\* here: it is the first path copied, and every later entry put directly
\* into it changes its time in either mode.)
C11_TimestampsPreserved ==
    ( /\ CopyDone
      /\ call.match = None
      /\ call.unmatch = None
      /\ call.flag ) =>
        \A p \in SourceEntriesBelowBase(call) : CarriesSourceMtime(p, call)

\* C11's case: a threaded copy with the defaults has completed, and a
\* directory inside the target carries the time of the copy, not its
\* source's, while the file in it carries its source's
C11_Witness ==
    /\ CopyDone
    /\ call.threaded
    /\ call.match = None
    /\ call.unmatch = None
    /\ call.flag
    /\ \E d \in DirsUnder(dirs0, call.base) \ {call.base} :
        /\ mtime[Counterpart(d, call)] = Now
        /\ \E f \in FilesUnder(files0, d) : Parent(f) = d /\ CarriesSourceMtime(f, call)

\* what remove_empty_folders_recursive has left when it ends: the files are
\* all there, a directory under the base (the base included) is there iff it
\* holds a file at some depth, so none that is left is empty, and nothing
\* outside the base is touched
RemoveEmptyResult ==
    /\ \A d \in DirsUnder(dirs0, call.base) :
         d \in dirs <=> FilesUnder(files0, d) # {}
    /\ \A d \in DirsUnder(dirs, call.base) \ {<<>>} : ListDir(dirs, files, d) # {}
    /\ dirs \ DirsUnder(dirs0, call.base) = dirs0 \ DirsUnder(dirs0, call.base)

\* C12: remove_empty_folders_recursive removes a directory only if it holds
\* no entry at the moment it is removed (every step), never deletes a file
\* (every state), and cascades in one pass: when it ends, a directory under
\* the base, the base included, exists iff it holds a file at some depth.
C12_RemovesEmptyOnlyAndCascades ==
    /\ [](InRemoveEmpty => files = files0)
    /\ []((InRemoveEmpty /\ pc = "done") => RemoveEmptyResult)
    /\ [][ \A d \in dirs \ dirs' : ListDir(dirs, files, d) = {} ]_vars

\* C12's case: the call has ended; the base holds a file and is kept, and a
\* directory two levels below the base was removed after the one above it
\* had become empty
C12_Witness ==
    /\ InRemoveEmpty
    /\ pc = "done"
    /\ call.base \in dirs
    /\ \E f \in DOMAIN files : Parent(f) = call.base
    /\ \E d \in dirs0 \ dirs :
        /\ IsPrefix(call.base, d)
        /\ Len(d) = Len(call.base) + 2
        /\ Parent(d) \notin dirs

\* the directories under the base of call c that pass the filter and hold no
\* directory, at any depth, that fails it
RemovableDirs(c) ==
    {d \in DirsUnder(dirs0, c.base) : Selected(d, c)} \ HoldingFailingDirs(c)

\* C13: when remove_folders_recursive_fnmatch ends, every directory that
\* passes the filter and has no descendant directory that fails it is gone
\* with its whole subtree, files included; with the default patterns the
\* whole tree is gone, the base directory itself included.
C13_RemovesPassingSubtrees ==
    (InRemoveFolders /\ pc = "done") =>
        /\ \A d \in RemovableDirs(call) :
            /\ d \notin dirs
            /\ DirsUnder(dirs, d) = {}
            /\ FilesUnder(files, d) = {}
        /\ (call.match = None /\ call.unmatch = None) =>
            /\ call.base \notin dirs
            /\ DirsUnder(dirs, call.base) = {}
            /\ FilesUnder(files, call.base) = {}

\* C13's case: the call has ended with a pattern that excludes a directory;
\* a directory that passes was removed together with a file it held and with
\* a subdirectory, while the excluded directory is still there
C13_Witness ==
    /\ InRemoveFolders
    /\ pc = "done"
    /\ FailingDirs(call) \cap DirsUnder(dirs0, call.base) # {}
    /\ \E d \in RemovableDirs(call) :
        /\ \E f \in DOMAIN files0 : Parent(f) = d
        /\ \E e \in dirs0 : Parent(e) = d
        /\ d \notin dirs

\* mkdir(parents=True, exist_ok=True) run alone: the directory and every
\* directory above it exist afterwards
MkdirParents(D, made) ==
    IF made = <<>> THEN D ELSE D \cup {made[1]} \cup Ancestors(made[1])

\* the loop of copy_tree_fnmatch with threaded=False run to its end on
\* directories D and files F: one copy_path_object_with_metadata after the
\* other, in the order of paths
RECURSIVE SequentialCopy(_, _, _, _)
SequentialCopy(D, F, paths, c) ==
    IF paths = <<>> THEN [dirs |-> D, files |-> F]
    ELSE LET path_source == Head(paths)
             path_target == PathTarget(path_source, c.base, c.target)
         IN SequentialCopy(
                MkdirParents(D, Mkdirs(IsDir(D, path_source), path_target, c.flag)),
                IF IsDir(D, path_source) THEN F ELSE Copy2(F, path_source, path_target),
                Tail(paths), c)

\* what the sequential copy of call c leaves, the walk listing in order ord
SequentialResult(c, ord) ==
    SequentialCopy(dirs0, files0,
                   GetTreePathFnmatch(dirs0, files0, c.base, Some(MatchOf(c)),
                                      Some(UnmatchOf(c)), ord),
                   c)

\* C14: in a threaded copy no task fails, whichever task makes a directory
\* that several tasks need (at every point of the call), and when the call
\* returns the directories and files present are those the sequential copy
\* of the same source with the same patterns leaves, whatever the order of
\* the listing; the sequential runs of the model leave the same.
C14_ThreadedEqualsSequential ==
    /\ (call.op = "copy_tree_fnmatch" /\ call.threaded) => failures = {}
    /\ CopyDone =>
        \A ord \in ScanOrders :
            /\ dirs = SequentialResult(call, ord).dirs
            /\ files = SequentialResult(call, ord).files

\* C14's case: a threaded copy; a task was refused a directory because the
\* directory above it was missing (FileNotFoundError), and finds that parent
\* made in the meantime by the other task, which is still running
C14_Witness ==
    /\ InCopy
    /\ call.threaded
    /\ \E w, v \in workers :
        /\ w # v
        /\ w.step = "mkdir"
        /\ Len(w.stack) >= 2
        /\ Head(w.stack) \in dirs \ dirs0
        /\ Head(w.stack) \in Ancestors(v.dst)

\* the copy has ended, by returning or by raising
CopyEnded == call.op = "copy_tree_fnmatch" /\ pc \in {"done", "failed"}

\* C15: whenever the copy of at least one item has failed, copy_tree_fnmatch
\* does not end as a clean success: its caller sees an exception, with
\* threaded=True as well as with threaded=False.
C15_FailureIsReported ==
    (CopyEnded /\ failures # {}) => (pc = "failed" /\ err # "none")

\* C15's case: a threaded copy has returned without an exception although the
\* copy of a selected file failed, and the file is missing in the target
C15_Witness ==
    /\ CopyDone
    /\ call.threaded
    /\ err = "none"
    /\ \E f \in failures :
        /\ f \in SelectedFiles(call)
        /\ Counterpart(f, call) \notin DOMAIN files

\* C16: when the copy of one item fails, every other selected file whose own
\* copy does not fail is copied all the same, and every other selected
\* directory is made (create_empty_directories being true), with
\* threaded=True as well as with threaded=False.
C16_FailuresAreIsolated ==
    (CopyEnded /\ failures # {}) =>
        /\ \A f \in SelectedFiles(call) \ failures :
            /\ Counterpart(f, call) \in DOMAIN files
            /\ files[Counterpart(f, call)] = files0[f]
        /\ call.flag => \A d \in SelectedDirs(call) : IsDir(dirs, Counterpart(d, call))

\* C16's case: a sequential copy has ended with the exception of the file
\* that failed, and a selected file that never failed has not been copied
C16_Witness ==
    /\ CopyEnded
    /\ ~call.threaded
    /\ pc = "failed"
    /\ failures # {}
    /\ \E f \in SelectedFiles(call) \ failures : Counterpart(f, call) \notin DOMAIN files

InPrune == InRemoveEmpty \/ InRemoveFolders

\* d lies below e, at any depth
IsBelow(d, e) == IsPrefix(e, d) /\ d # e

\* C17: in remove_empty_folders_recursive and remove_folders_recursive_fnmatch
\* the directories still to be evaluated stand, at every point of the loop,
\* in an order in which no directory comes before a directory below it: each
\* is evaluated after all its descendants that are evaluated at all.  The
\* base directory, which get_tree_dirs yields first, is the last one
\* evaluated by remove_empty_folders_recursive.
C17_ChildrenBeforeParents ==
    /\ InPrune =>
        \A i, j \in 1..Len(todo) : i < j => ~IsBelow(todo[j], todo[i])
    /\ (InRemoveEmpty /\ todo # <<>>) =>
        /\ todo[Len(todo)] = call.base
        /\ \A ord \in ScanOrders : Head(GetTreeDirs(dirs0, files0, call.base, ord)) = call.base

\* C17's case: remove_folders_recursive_fnmatch is about to evaluate a
\* directory two levels below the base; the directory above it and the base,
\* the enumerator's first, are still to come, in this order
C17_Witness ==
    /\ InRemoveFolders
    /\ pc = "running"
    /\ Len(todo) >= 3
    /\ Len(Head(todo)) = Len(call.base) + 2
    /\ todo[2] = Parent(Head(todo))
    /\ todo[Len(todo)] = call.base
    /\ \A ord \in ScanOrders : Head(GetTreeDirs(dirs0, files0, call.base, ord)) = call.base

\* the files directly in directory d
FilesIn(F, d) == {f \in DOMAIN F : Parent(f) = d}

\* C18: remove_folders_recursive_fnmatch deletes whole subtrees or nothing.
\* At every point of the call, and so at its end, every directory that
\* exists (the anchor "/" among them) holds exactly the files it held
\* directly before the call, with their contents; so a file is gone only if
\* the directory that held it is gone, and no file directly in a directory
\* that fails the filter is ever deleted.
C18_FilesGoWithTheirDirectory ==
    InRemoveFolders =>
        /\ \A d \in dirs \cup {<<>>} :
            /\ FilesIn(files, d) = FilesIn(files0, d)
            /\ \A f \in FilesIn(files0, d) : files[f] = files0[f]
        /\ \A f \in DOMAIN files0 \ DOMAIN files : Parent(f) \notin dirs
        /\ \A d \in FailingDirs(call) : FilesIn(files0, d) \subseteq DOMAIN files
        /\ DOMAIN files \subseteq DOMAIN files0

\* C18's case: the call has ended; a directory that fails the filter still
\* holds its file, and a directory below it was removed with the file it held
C18_Witness ==
    /\ InRemoveFolders
    /\ pc = "done"
    /\ \E k \in FailingDirs(call) :
        /\ IsPrefix(call.base, k)
        /\ FilesIn(files, k) # {}
        /\ \E d \in dirs0 \ dirs : Parent(d) = k /\ FilesIn(files0, d) # {}

====
